---- MODULE Spec2Model ----
(***************************************************************************)
(* GraphRAG orchestrator of metalback/graph-rag-sql (src/graph_rag.py):    *)
(* the snapshot cache directory, the two persisted artifacts, the          *)
(* in-memory index/graph pair, build_graph, load_graph,                    *)
(* build_or_load_graph and get_context.                                    *)
(*                                                                         *)
(* Strings that the code splits are sequences of tokens: a file name       *)
(* "s_t.v.json" is <<"s","_","t",".","v",".","json">>.  Scores are the     *)
(* floats returned by the index in tenths: 3 stands for 0.3.               *)
(***************************************************************************)
EXTENDS Integers, Sequences, FiniteSets, TLC

\* ------------------------------------------------------------------ bounds
MaxFiles == 3          \* files in a cache directory of SpecBuild
MaxTables == 6         \* snapshot files in a cache directory of SpecContext

\* --------------------------------------------------------- program constants
SimilarityThreshold == 3    \* similarity_threshold = 0.3, in tenths
BuildTopK == 10             \* similarity_search_with_score(..., k=10)
ContextTopK == 5            \* similarity_search(query, k=5)

None == "None"
NotInitialized == "Error: Vector store not initialized."

\* ------------------------------------------------------------- Python str
RECURSIVE Split(_, _)
\* str.split(sep): the pieces between the occurrences of sep
Split(s, sep) ==
  IF \A i \in 1..Len(s) : s[i] # sep THEN <<s>>
  ELSE LET i == CHOOSE k \in 1..Len(s) :
                   s[k] = sep /\ \A j \in 1..(k-1) : s[j] # sep
       IN  <<SubSeq(s, 1, i-1)>> \o Split(SubSeq(s, i+1, Len(s)), sep)

\* str.endswith(suffix)
EndsWith(s, suffix) ==
  /\ Len(s) >= Len(suffix)
  /\ SubSeq(s, Len(s) - Len(suffix) + 1, Len(s)) = suffix

\* f"{db}.{table}"
NodeName(db, table) == db \o <<".">> \o table

\* db_name, table_name = file.split('_'); table_name = table_name.split('.')[0]
\* The unpacking raises ValueError unless split('_') gives exactly two pieces.
ParseFileName(file) ==
  LET parts == Split(file, "_")
  IN  IF Len(parts) # 2 THEN [raised |-> "ValueError"]
      ELSE [raised |-> None, db |-> parts[1], table |-> Split(parts[2], ".")[1]]

\* ------------------------------------------------------- snapshot contents
\* What json.load gives for a snapshot file: a failure (the file is not
\* JSON), the empty object, or an object, written as the sequence of its keys.
BadJson == [json |-> FALSE, keys |-> <<>>]
EmptyObject == [json |-> TRUE, keys |-> <<>>]
PayloadA == [json |-> TRUE, keys |-> <<"id">>]
PayloadB == [json |-> TRUE, keys |-> <<"id", "name">>]
Payloads == {PayloadA, PayloadB}

\* json.dumps(content): the text of the object
Dumps(content) == <<"text">> \o content.keys
Texts == {Dumps(p) : p \in Payloads}

\* Document(page_content=content_str, metadata={db, table, columns})
MakeDocument(db, table, content) ==
  [page_content |-> Dumps(content), db |-> db, table |-> table,
   columns |-> content.keys]

NodeOf(doc) == NodeName(doc.db, doc.table)

\* ------------------------------------------------------------ the index
\* A FAISS store is the sequence of the Documents it was built from.  The
\* embedding provider is external: d[query, text] is the score the index
\* returns for a Document with that page_content when queried with query;
\* d[query] is the row of scores of one query text.
ScoreVals == {2, 3, 4}
ScoreRows == [Texts -> ScoreVals]
DistanceTables == [Texts -> ScoreRows]

\* Position of the Document at store[i] in the result of a query: nearest
\* (lowest score) first, equal scores in the order of the store.
RankOf(store, sc, i) ==
  1 + Cardinality({j \in 1..Len(store) :
                     \/ sc[j] < sc[i]
                     \/ sc[j] = sc[i] /\ j < i})

\* vector_store.similarity_search_with_score(text, k), row being the scores
\* of the query text: the k nearest Documents with their scores, as pairs
\* <<doc, score>>
SimilaritySearchWithScore(store, row, k) ==
  LET sc == [i \in 1..Len(store) |-> row[store[i].page_content]]
      n == IF Len(store) < k THEN Len(store) ELSE k
  IN  [r \in 1..n |->
         LET i == CHOOSE j \in 1..Len(store) : RankOf(store, sc, j) = r
         IN  <<store[i], sc[i]>>]

\* ------------------------------------------------------------ the graph
\* nx.Graph: nodes with their attributes and edges, both in insertion order.
\* hasColumns is FALSE for a node that has no 'columns' attribute; isList
\* is FALSE when the attribute is a string and not a list of strings.
NoneGraph == [isNone |-> TRUE, nodes |-> <<>>, edges |-> <<>>]
EmptyGraph == [isNone |-> FALSE, nodes |-> <<>>, edges |-> <<>>]

NodeIds(g) == {g.nodes[i].id : i \in 1..Len(g.nodes)}
HasNode(g, n) == n \in NodeIds(g)
HasEdge(g, u, v) ==
  \E i \in 1..Len(g.edges) : {g.edges[i].u, g.edges[i].v} = {u, v}

\* A pair loop without its add_node call
AddNode_Dropped(g, n, cols) == g

\* An add_node that leaves a node that exists as it is
AddNode_KeepsOld(g, n, cols) ==
  IF HasNode(g, n) THEN g
  ELSE [g EXCEPT !.nodes =
          Append(g.nodes, [id |-> n, hasColumns |-> TRUE, isList |-> TRUE,
                           columns |-> cols])]

\* G.add_node(n, columns=cols): a new node, or new attributes for an old one
AddNode(g, n, cols) ==
  IF HasNode(g, n)
  THEN [g EXCEPT !.nodes = [i \in 1..Len(g.nodes) |->
                              IF g.nodes[i].id = n
                              THEN [id |-> n, hasColumns |-> TRUE, isList |-> TRUE,
                                    columns |-> cols]
                              ELSE g.nodes[i]]]
  ELSE [g EXCEPT !.nodes =
          Append(g.nodes, [id |-> n, hasColumns |-> TRUE, isList |-> TRUE,
                           columns |-> cols])]

\* The implicit node creation of add_edge: no attributes
TouchNode(g, n) ==
  IF HasNode(g, n) THEN g
  ELSE [g EXCEPT !.nodes =
          Append(g.nodes, [id |-> n, hasColumns |-> FALSE, isList |-> FALSE,
                           columns |-> <<>>])]

\* G.add_edge(u, v, weight=w): creates missing end points, overwrites the
\* weight of an edge that exists
AddEdge(g, u, v, w) ==
  LET h == TouchNode(TouchNode(g, u), v)
  IN  IF HasEdge(h, u, v)
      THEN [h EXCEPT !.edges = [i \in 1..Len(h.edges) |->
                                  IF {h.edges[i].u, h.edges[i].v} = {u, v}
                                  THEN [h.edges[i] EXCEPT !.weight = w]
                                  ELSE h.edges[i]]]
      ELSE [h EXCEPT !.edges = Append(h.edges, [u |-> u, v |-> v, weight |-> w])]

RECURSIVE NeighborsFrom(_, _, _)
NeighborsFrom(g, n, i) ==
  IF i > Len(g.edges) THEN <<>>
  ELSE LET e == g.edges[i]
           here == IF e.u = n THEN <<e.v>>
                   ELSE IF e.v = n THEN <<e.u>> ELSE <<>>
       IN  here \o NeighborsFrom(g, n, i + 1)

\* The neighbours read along the direction in which the edges were added
Neighbors_Outgoing(g, n) ==
  LET out == {i \in 1..Len(g.edges) : g.edges[i].u = n}
  IN  [k \in 1..Cardinality(out) |->
         g.edges[CHOOSE i \in out : Cardinality({j \in out : j <= i}) = k].v]

\* list(G.neighbors(n)) for a node of the graph, in adjacency order
Neighbors(g, n) == NeighborsFrom(g, n, 1)

\* G.nodes[n]: the attributes of a node of the graph
NodeAttrs(g, n) == g.nodes[CHOOSE k \in 1..Len(g.nodes) : g.nodes[k].id = n]

\* ------------------------------------------------------------ build_graph
RECURSIVE LoadDocuments(_, _, _, _)
\* Lines 32-60: one Document per .json file whose content is a non-empty
\* object; a file name that does not split in two raises ValueError.
LoadDocuments(dir, listing, i, docs) ==
  IF i > Len(listing) THEN [raised |-> None, documents |-> docs]
  ELSE LET file == listing[i]
           name == ParseFileName(file)
       IN  IF ~EndsWith(file, <<".", "json">>)
           THEN LoadDocuments(dir, listing, i + 1, docs)
           ELSE IF name.raised # None
           THEN [raised |-> name.raised, documents |-> docs]
           ELSE IF dir[file] \in {BadJson, EmptyObject}
           THEN LoadDocuments(dir, listing, i + 1, docs)
           ELSE LoadDocuments(dir, listing, i + 1,
                              Append(docs, MakeDocument(name.db, name.table, dir[file])))

\* The comparison turned round
ReachesThreshold_Below(similarity_score, threshold) == similarity_score <= threshold

\* similarity_score >= similarity_threshold
ReachesThreshold(similarity_score, threshold) == similarity_score >= threshold

\* next((sim for sim in similarities if sim[0].metadata matches doc2), None)
FirstMatch(similarities, doc2) ==
  LET hits == {r \in 1..Len(similarities) :
                 /\ similarities[r][1].table = doc2.table
                 /\ similarities[r][1].db = doc2.db}
  IN  IF hits = {} THEN [found |-> FALSE, score |-> 0]
      ELSE [found |-> TRUE,
            score |-> similarities[CHOOSE r \in hits : \A q \in hits : r <= q][2]]

RECURSIVE GraphLoopTo(_, _, _, _, _, _, _, _)
\* Lines 79-90, up to the end of the outer iteration of index last.
\* j = i stands for the head of the outer iteration (add_node),
\* okQueries for the number of index queries that still succeed (-1 when
\* the provider does not fail); a failed query raises out of the loop.
\* (g is never None here: the test makes TLC evaluate the graph built so
\* far at each step instead of at the end.)
GraphLoopTo(g, docs, d, threshold, i, j, okQueries, last) ==
  IF i > last \/ g.isNone THEN [raised |-> None, graph |-> g]
  ELSE IF j = i
  THEN GraphLoopTo(AddNode(g, NodeOf(docs[i]), docs[i].columns),
                   docs, d, threshold, i, i + 1, okQueries, last)
  ELSE IF j > Len(docs)
  THEN GraphLoopTo(g, docs, d, threshold, i + 1, i + 1, okQueries, last)
  ELSE IF okQueries = 0 THEN [raised |-> "EmbeddingError", graph |-> g]
  ELSE LET similarities ==
             SimilaritySearchWithScore(docs, d[docs[i].page_content], BuildTopK)
           similarity == FirstMatch(similarities, docs[j])
           h == IF similarity.found /\ ReachesThreshold(similarity.score, threshold)
                THEN AddEdge(g, NodeOf(docs[i]), NodeOf(docs[j]), similarity.score)
                ELSE g
       IN  GraphLoopTo(h, docs, d, threshold, i, j + 1,
                       IF okQueries < 0 THEN okQueries ELSE okQueries - 1, last)

\* Lines 79-90: the whole loop
GraphLoop(g, docs, d, threshold, i, j, okQueries) ==
  GraphLoopTo(g, docs, d, threshold, i, j, okQueries, Len(docs))

\* A loop that goes on to the save when a query of the index fails
GraphOf_Swallows(docs, d, threshold, okQueries) ==
  [raised |-> None,
   graph |-> GraphLoop(EmptyGraph, docs, d, threshold, 1, 1, okQueries).graph]

\* The graph that lines 77-90 build over the Documents with a threshold
GraphOf(docs, d, threshold, okQueries) ==
  GraphLoop(EmptyGraph, docs, d, threshold, 1, 1, okQueries)

\* ----------------------------------------------------------- persistence
\* A persisted artifact: state is "missing" (os.path.exists is False), "ok",
\* or "corrupt" (the path exists but cannot be loaded: a write that failed
\* after the file was opened).
MissingIndex == [state |-> "missing", docs |-> <<>>]
MissingGraph == [state |-> "missing", nodes |-> <<>>, edges |-> <<>>]

NoneStore == [isNone |-> TRUE, docs |-> <<>>]
\* FAISS.from_documents(documents, embeddings)
FromDocuments(docs) == [isNone |-> FALSE, docs |-> docs]

\* vector_store.save_local(path): the pickled docstore
SaveLocal(store) == [state |-> "ok", docs |-> store.docs]
\* FAISS.load_local(path, embeddings, ...)
LoadLocal(file) == [isNone |-> FALSE, docs |-> file.docs]

IndexOfNode(g, n) == CHOOSE k \in 1..Len(g.nodes) : g.nodes[k].id = n

RECURSIVE EdgesFrom(_, _, _, _)
\* G.edges in the order networkx yields them: node by node, each node's
\* neighbours in adjacency order, without the neighbours already passed
EdgesFrom(g, a, nbrs, k) ==
  IF a > Len(g.nodes) THEN <<>>
  ELSE IF k > Len(nbrs)
  THEN EdgesFrom(g, a + 1,
                 IF a + 1 > Len(g.nodes) THEN <<>>
                 ELSE Neighbors(g, g.nodes[a + 1].id), 1)
  ELSE LET b == IndexOfNode(g, nbrs[k])
           e == CHOOSE x \in {g.edges[i] : i \in 1..Len(g.edges)} :
                  {x.u, x.v} = {g.nodes[a].id, nbrs[k]}
       IN  (IF b < a THEN <<>>
            ELSE <<[source |-> a - 1, target |-> b - 1, weight |-> e.weight]>>)
           \o EdgesFrom(g, a, nbrs, k + 1)

\* The value that marks the start of a list in a GML file of networkx
ListStart == "_networkx_list_start"

\* A writer without the mark: one "columns" line for each element
WriteColumns_NoMark(node) ==
  IF ~node.hasColumns THEN <<>> ELSE node.columns

\* The "columns" lines write_gml gives a node: none without the attribute,
\* one for a string, one for each element of a list, after the mark when
\* the list has one element; an empty list is written as the string "[]"
\* (no Document has one: line 42 takes non-empty objects only).
WriteColumns(node) ==
  IF ~node.hasColumns THEN <<>>
  ELSE IF ~node.isList THEN <<node.columns[1]>>
  ELSE IF Len(node.columns) = 0 THEN <<"[]">>
  ELSE IF Len(node.columns) = 1 THEN <<ListStart>> \o node.columns
  ELSE node.columns

\* The 'columns' attribute read_gml gives a node with these "columns"
\* lines: a key that occurs once is a string, a key that occurs several
\* times the list of its values, without the mark
ReadColumns(lines) ==
  IF lines = <<>>
  THEN [hasColumns |-> FALSE, isList |-> FALSE, columns |-> <<>>]
  ELSE IF Len(lines) = 1
  THEN [hasColumns |-> TRUE, isList |-> FALSE, columns |-> lines]
  ELSE [hasColumns |-> TRUE, isList |-> TRUE,
        columns |-> IF lines[1] = ListStart THEN Tail(lines) ELSE lines]

\* nx.write_gml(graph, path): numbered nodes with label and attributes, then
\* the edges between node numbers
WriteGml(g) ==
  [state |-> "ok",
   nodes |-> [i \in 1..Len(g.nodes) |->
                [id |-> i - 1, label |-> g.nodes[i].id,
                 columns |-> WriteColumns(g.nodes[i])]],
   edges |-> EdgesFrom(g, 1,
                       IF Len(g.nodes) = 0 THEN <<>>
                       ELSE Neighbors(g, g.nodes[1].id), 1)]

RECURSIVE ReadEdges(_, _, _)
ReadEdges(file, g, i) ==
  IF i > Len(file.edges) THEN g
  ELSE LET e == file.edges[i]
       IN  ReadEdges(file,
                     AddEdge(g, file.nodes[e.source + 1].label,
                             file.nodes[e.target + 1].label, e.weight),
                     i + 1)

\* The nodes of a GML file under their labels, with their attributes
ReadNodes(file) ==
  [isNone |-> FALSE,
   nodes |-> [i \in 1..Len(file.nodes) |->
                LET attr == ReadColumns(file.nodes[i].columns)
                IN  [id |-> file.nodes[i].label, hasColumns |-> attr.hasColumns,
                     isList |-> attr.isList, columns |-> attr.columns]],
   edges |-> <<>>]

\* A reader that takes the nodes and leaves the edges
ReadGml_NoEdges(file) == ReadNodes(file)

\* nx.read_gml(path): the nodes under their labels, then the edges
ReadGml(file) == ReadEdges(file, ReadNodes(file), 1)

\* ------------------------------------------------------------ get_context
Line(tag, value) == [tag |-> tag, value |-> value]

RECURSIVE RetrievedLoop(_, _, _, _, _, _)
\* Lines 119-141: one block per retrieved Document and the collection of
\* the neighbours of its node
RetrievedLoop(g, docs, i, lines, added, related) ==
  IF i > Len(docs)
  THEN [raised |-> None, lines |-> lines, added |-> added, related |-> related]
  ELSE LET doc == docs[i]
           node == NodeOf(doc)
           block == <<Line("Table", node), Line("Columns", doc.columns),
                      Line("Common values", doc.page_content)>>
           related_tables == Neighbors(g, node)
           failed(e) == [raised |-> e, lines |-> lines, added |-> added,
                         related |-> related]
       IN  IF g.isNone THEN failed("AttributeError")
           ELSE IF ~HasNode(g, node) THEN failed("NetworkXError")
           ELSE IF \E k \in 1..Len(related_tables) :
                     ~NodeAttrs(g, related_tables[k]).hasColumns
           THEN failed("KeyError")
           ELSE RetrievedLoop(g, docs, i + 1,
                  lines \o block
                        \o (IF related_tables # <<>>
                            THEN <<Line("Related tables", related_tables)>>
                            ELSE <<>>)
                        \o <<Line("", <<>>)>>,
                  added \cup {node},
                  related \cup {related_tables[k] : k \in 1..Len(related_tables)})

\* self.vector_store.get_document_by_metadata(...): neither the FAISS store
\* of langchain_community nor the store of the tests has such a method
GetDocumentByMetadata(store, db, table) == [raised |-> "AttributeError"]

\* Lines 143-155.  Whatever the order of the set iteration, the first
\* related table that has no block yet gets its "Table" and "Columns" lines
\* and then the Document lookup, which raises; nothing after the lookup runs.
RelatedLoop(store, g, lines, added, related) ==
  IF related \subseteq added THEN [raised |-> None, lines |-> lines]
  ELSE LET related_table == CHOOSE t \in related : t \notin added
           parts == Split(related_table, ".")
       IN  [raised |-> GetDocumentByMetadata(store, parts[1], parts[2]).raised,
            lines |-> lines]

\* get_context(query); row holds the scores of the query text, embedOk tells
\* whether the provider embeds it.
GetContextResult(store, g, row, embedOk) ==
  IF store.isNone
  THEN [raised |-> None, kind |-> "message", message |-> NotInitialized, lines |-> <<>>]
  ELSE IF ~embedOk
  THEN [raised |-> "EmbeddingError", kind |-> "raised", message |-> "", lines |-> <<>>]
  ELSE LET found == SimilaritySearchWithScore(store.docs, row, ContextTopK)
           relevant_docs == [i \in 1..Len(found) |-> found[i][1]]
           first == RetrievedLoop(g, relevant_docs, 1,
                                  <<Line("Database structure:", <<>>)>>, {}, {})
           second == RelatedLoop(store, g, first.lines, first.added, first.related)
       IN  IF first.raised # None
           THEN [raised |-> first.raised, kind |-> "raised", message |-> "", lines |-> <<>>]
           ELSE IF second.raised # None
           THEN [raised |-> second.raised, kind |-> "raised", message |-> "", lines |-> <<>>]
           ELSE [raised |-> None, kind |-> "context", message |-> "", lines |-> second.lines]

\* ------------------------------------------------------------------ state
VARIABLES
  cache,         \* the .json-or-not files of cache_dir: file name -> content
  indexFile,     \* the artifact at vector_store_path
  graphFile,     \* the artifact at graph_path
  vector_store,  \* self.vector_store
  graph,         \* self.graph
  dist,          \* the scores of the embedding provider
  initialized,   \* a build or a load of this instance has completed
  database,      \* the database the cache writers sample: its kind and
                 \* its tables, in the order it enumerates them
  host,          \* the process: the environment variables that are set and
                 \* the connector and the LLM client it has constructed
  run,           \* the build_graph call in flight: where it stands, the
                 \* Documents it collected, the next index of its outer loop
  log            \* what the last call did and returned

vars == <<cache, indexFile, graphFile, vector_store, graph, dist, initialized,
          database, host, run, log>>

\* No build_graph call in flight
Idle == [pc |-> "idle", documents |-> <<>>, i |-> 0]

\* ----------------------------------------------------------- environment
\* The environment variables the components read
DbNames == {"DB_HOST", "DB_USER", "DB_PASSWORD", "DB_NAME"}

\* A process with every variable of the connection and the key set, whose
\* connector is connected
Configured ==
  [env |-> DbNames \cup {"GOOGLE_AI_KEY"}, db_connector |-> "connected",
   llm |-> "none"]

\* os.environ['GOOGLE_AI_KEY'] raises KeyError
KeyMissing == "GOOGLE_AI_KEY" \notin host.env

\* ------------------------------------------------------- cache directories
FileName(db, table) == db \o <<"_">> \o table \o <<".", "json">>

FileT == FileName(<<"s">>, <<"t">>)                 \* s_t.json
FileU == FileName(<<"s">>, <<"u">>)                 \* s_u.json
FileTV == FileName(<<"s">>, <<"t", ".", "v">>)      \* s_t.v.json
FileW == FileName(<<"s">>, <<"w">>)                 \* s_w.json
FileTX == FileName(<<"s">>, <<"t", "_", "x">>)      \* s_t_x.json
FileNotes == <<"notes", ".", "txt">>                \* notes.txt
FileX == FileName(<<"s">>, <<"x">>)                 \* s_x.json
FileY == FileName(<<"s">>, <<"y">>)                 \* s_y.json
FileZ == FileName(<<"s">>, <<"z">>)                 \* s_z.json
FileR == FileName(<<"r">>, <<"t">>)                 \* r_t.json
\* The snapshots the application's connector writes: f"{schema}.{table}.json"
FileBdiT == NodeName(<<"bdi">>, <<"t">>) \o <<".", "json">>    \* bdi.t.json
FileBdiU == NodeName(<<"bdi">>, <<"u">>) \o <<".", "json">>    \* bdi.u.json

RECURSIVE Among(_, _)
\* The files of a directory in the order of a sequence of all file names
Among(order, files) ==
  IF order = <<>> THEN <<>>
  ELSE (IF Head(order) \in files THEN <<Head(order)>> ELSE <<>>)
       \o Among(Tail(order), files)

\* os.listdir gives the files in an arbitrary order; two of the orders it
\* can give: by name, and by name backwards
NameListings(files) ==
  {Among(<<FileBdiT, FileBdiU, FileNotes, FileR, FileT, FileTV, FileTX, FileU,
           FileW, FileX, FileY, FileZ>>, files),
   Among(<<FileZ, FileY, FileX, FileW, FileU, FileTX, FileTV, FileT, FileR,
           FileNotes, FileBdiU, FileBdiT>>, files)}

Directories(files, contents, n) ==
  UNION {[names -> contents] : names \in {x \in SUBSET files : Cardinality(x) <= n}}

\* ----------------------------------------------------------------- calls
\* The record of a call.  branch: "build" or "load"; completed: the build
\* reached the save, the load read both artifacts; raised: the exception
\* that left the call; embedded: the Documents handed to the provider;
\* wrote: the artifacts written; failed: a call of the embedding provider
\* failed during the build; kind, message, lines: what get_context returned.
Entry(op, branch, completed, raised, embedded, wrote) ==
  [op |-> op, branch |-> branch, completed |-> completed, raised |-> raised,
   embedded |-> embedded, wrote |-> wrote, failed |-> FALSE, kind |-> "none",
   message |-> "", lines |-> <<>>]

\* A build_or_load that looks at the index artifact only
ArtifactsExist_IndexOnly(index, gml) == index.state # "missing"

\* A build_or_load with its test the wrong way round
ArtifactsExist_Negated(index, gml) ==
  ~(index.state # "missing" /\ gml.state # "missing")

\* os.path.exists(self.vector_store_path) and os.path.exists(self.graph_path)
ArtifactsExist(index, gml) == index.state # "missing" /\ gml.state # "missing"

SaveFailures == {"none", "index", "graph", "graph_partial"}

\* The calls of the embedding provider a build over n Documents makes: one
\* for the Documents, one for each query of the pair loop
EmbeddingCalls(n) == 1 + (n * (n - 1)) \div 2

\* Lines 92-98 after a build that reached them.  saveFail: the step of the
\* save that raises ("index": save_local; "graph": write_gml before the file
\* is opened; "graph_partial": write_gml after it was opened).  index, gml:
\* the artifacts as the build found them.
SaveArtifacts(op, documents, saveFail, failed, index, gml) ==
  /\ indexFile' = IF saveFail = "index" THEN index ELSE SaveLocal(vector_store')
  /\ graphFile' = CASE saveFail \in {"index", "graph"} -> gml
                    [] saveFail = "graph_partial" ->
                         [state |-> "corrupt", nodes |-> <<>>, edges |-> <<>>]
                    [] OTHER -> WriteGml(graph')
  /\ log' = [Entry(op, "build", TRUE, None, Len(documents),
                   CASE saveFail = "index" -> {}
                     [] saveFail = "graph" -> {"index"}
                     [] OTHER -> {"index", "graph"})
               EXCEPT !.failed = failed]

\* build_graph().  listing: the order of os.listdir; okCalls: the number of
\* calls of the embedding provider that succeed (-1: all; none without the
\* key, which line 70 reads inside the try); mayFail: whether
\* the provider and the file system may fail during this call; index, gml:
\* the artifacts as the build finds them.
BuildGraphFrom(op, listing, mayFail, index, gml) ==
  LET scan == LoadDocuments(cache, listing, 1, <<>>)
      documents == scan.documents
      stopped(raised, embedded, failed) ==
        /\ graph' = EmptyGraph
        /\ log' = [Entry(op, "build", FALSE, raised, embedded, {})
                     EXCEPT !.failed = failed]
        /\ indexFile' = index
        /\ graphFile' = gml
        /\ UNCHANGED <<vector_store, initialized>>
  IN  /\ UNCHANGED <<cache, dist, run, database, host>>
      /\ IF scan.raised # None THEN stopped(scan.raised, 0, FALSE)
         ELSE IF documents = <<>> THEN stopped(None, 0, FALSE)
         ELSE \E okCalls \in IF KeyMissing THEN {0}
                              ELSE IF mayFail
                              THEN -1..(EmbeddingCalls(Len(documents)) - 1)
                              ELSE {-1} :
                IF okCalls = 0 THEN stopped(None, Len(documents), TRUE)
                ELSE LET built == GraphOf(documents, dist, SimilarityThreshold,
                                          IF okCalls < 0 THEN okCalls ELSE okCalls - 1)
                     IN  /\ vector_store' = FromDocuments(documents)
                         /\ graph' = built.graph
                         /\ IF built.raised # None
                            THEN /\ log' = [Entry(op, "build", FALSE, built.raised,
                                                  Len(documents), {})
                                               EXCEPT !.failed = okCalls >= 0]
                                 /\ indexFile' = index
                                 /\ graphFile' = gml
                                 /\ UNCHANGED initialized
                            ELSE /\ initialized' = TRUE
                                 /\ \E saveFail \in IF mayFail THEN SaveFailures
                                                     ELSE {"none"} :
                                      SaveArtifacts(op, documents, saveFail,
                                                    okCalls >= 0, index, gml)

\* build_graph() over the artifacts that are there
BuildGraph(op, listing, mayFail) ==
  BuildGraphFrom(op, listing, mayFail, indexFile, graphFile)

LoadFailures == {"none", "index", "graph"}

\* load_graph().  loadFail: the step that fails although the artifact is
\* sound (the provider's constructor or an I/O error); an artifact that is
\* missing or corrupt fails its step anyway, and so does the index step
\* without the key (line 102).  The exception is caught.
LoadGraph(op, loadFail) ==
  LET indexOk == indexFile.state = "ok" /\ loadFail # "index" /\ ~KeyMissing
      graphOk == graphFile.state = "ok" /\ loadFail # "graph"
  IN  /\ UNCHANGED <<cache, dist, run, indexFile, graphFile, database, host>>
      /\ vector_store' = IF indexOk THEN LoadLocal(indexFile) ELSE vector_store
      /\ graph' = IF indexOk /\ graphOk THEN ReadGml(graphFile) ELSE graph
      /\ initialized' = (initialized \/ (indexOk /\ graphOk))
      /\ log' = Entry(op, "load", indexOk /\ graphOk, None, 0, {})

BuildGraphCall ==
  \E listing \in NameListings(DOMAIN cache) :
    BuildGraph("build_graph", listing, TRUE)

LoadGraphCall ==
  \E loadFail \in LoadFailures : LoadGraph("load_graph", loadFail)

\* build_or_load_graph()
BuildOrLoadGraph ==
  IF ArtifactsExist(indexFile, graphFile)
  THEN \E loadFail \in LoadFailures : LoadGraph("build_or_load_graph", loadFail)
  ELSE \E listing \in NameListings(DOMAIN cache) :
         BuildGraph("build_or_load_graph", listing, TRUE)

\* The record of a call that removes files.  deleted: the count it returns.
DeleteEntry(op, deleted) ==
  [op |-> op, branch |-> "", completed |-> FALSE, raised |-> None,
   embedded |-> 0, wrote |-> {}, failed |-> FALSE, kind |-> "none",
   message |-> "", lines |-> <<>>, deleted |-> deleted]

\* The persisted artifacts that exist, by name
Persisted(index, gml) ==
  {a \in {"index", "graph"} :
     (IF a = "index" THEN index.state ELSE gml.state) # "missing"}

\* delete_graph_db(): removes the index artifact and the graph artifact
\* from storage and returns how many it removed; nothing to remove is no
\* error.  The instance keeps what it holds in memory.
DeleteGraphDb ==
  /\ indexFile' = MissingIndex
  /\ graphFile' = MissingGraph
  /\ log' = DeleteEntry("delete_graph_db",
                        Cardinality(Persisted(indexFile, graphFile)))
  /\ UNCHANGED <<cache, vector_store, graph, dist, run, initialized, database, host>>

\* The snapshot files of the cache directory
SnapshotFiles(dir) == {f \in DOMAIN dir : EndsWith(f, <<".", "json">>)}

\* delete_cache(): removes the snapshot files, and (alsoArtifacts) may remove
\* the persisted artifacts with them; returns how many files it removed.
DeleteCache ==
  \E alsoArtifacts \in BOOLEAN :
    /\ cache' = [f \in DOMAIN cache \ SnapshotFiles(cache) |-> cache[f]]
    /\ indexFile' = IF alsoArtifacts THEN MissingIndex ELSE indexFile
    /\ graphFile' = IF alsoArtifacts THEN MissingGraph ELSE graphFile
    /\ log' = DeleteEntry("delete_cache",
                          Cardinality(SnapshotFiles(cache))
                          + (IF alsoArtifacts
                             THEN Cardinality(Persisted(indexFile, graphFile))
                             ELSE 0))
    /\ UNCHANGED <<vector_store, graph, dist, run, initialized, database, host>>

\* update_graph_db(): delete_graph_db(), then build_or_load_graph(), which
\* finds no artifact and builds
UpdateGraphDb ==
  \E listing \in NameListings(DOMAIN cache) :
    BuildGraphFrom("update_graph_db", listing, TRUE, MissingIndex, MissingGraph)

\* ------------------------------------------------- build_graph, by steps
\* build_graph() as the steps another request can run between: the handlers
\* of the application share one instance and no lock.
InFlight(pc, documents, i) == [pc |-> pc, documents |-> documents, i |-> i]

StepEntry(raised, embedded, failed) ==
  [Entry("build_graph", "build", FALSE, raised, embedded, {})
     EXCEPT !.failed = failed]

\* A build that fills a graph of its own and leaves self.graph for the end
BuildReset_Local ==
  /\ run.pc = "idle"
  /\ run' = InFlight("scan", <<>>, 0)
  /\ log' = StepEntry(None, 0, FALSE)
  /\ UNCHANGED <<cache, indexFile, graphFile, vector_store, graph, dist,
                 initialized, database, host>>

\* Line 24: self.graph = nx.Graph()
BuildReset ==
  /\ run.pc = "idle"
  /\ graph' = EmptyGraph
  /\ run' = InFlight("scan", <<>>, 0)
  /\ log' = StepEntry(None, 0, FALSE)
  /\ UNCHANGED <<cache, indexFile, graphFile, vector_store, dist, initialized,
                 database, host>>

\* Lines 26-66: the Documents of the cache directory; the call ends here
\* when a file name does not unpack or no Document was made
BuildScan ==
  /\ run.pc = "scan"
  /\ \E listing \in NameListings(DOMAIN cache) :
       LET scan == LoadDocuments(cache, listing, 1, <<>>)
       IN  /\ run' = IF scan.raised # None \/ scan.documents = <<>> THEN Idle
                      ELSE InFlight("embed", scan.documents, 0)
           /\ log' = StepEntry(scan.raised, 0, FALSE)
  /\ UNCHANGED <<cache, indexFile, graphFile, vector_store, graph, dist,
                 initialized, database, host>>

\* Lines 68-75: self.vector_store = FAISS.from_documents(...); a failure is
\* caught and the call returns
BuildEmbed ==
  /\ run.pc = "embed"
  /\ \E ok \in IF KeyMissing THEN {FALSE} ELSE BOOLEAN :
       /\ vector_store' = IF ok THEN FromDocuments(run.documents) ELSE vector_store
       /\ run' = IF ok THEN InFlight("nodes", run.documents, 1) ELSE Idle
       /\ log' = StepEntry(None, Len(run.documents), ~ok)
  /\ UNCHANGED <<cache, indexFile, graphFile, graph, dist, initialized,
                 database, host>>

\* Lines 79-90: one iteration of the outer loop; a query of the index that
\* fails raises out of the call
BuildNode ==
  /\ run.pc = "nodes"
  /\ run.i <= Len(run.documents)
  /\ \E ok \in BOOLEAN :
       LET out == GraphLoopTo(graph, run.documents, dist, SimilarityThreshold,
                              run.i, run.i, IF ok THEN -1 ELSE 0, run.i)
       IN  /\ graph' = out.graph
           /\ run' = IF out.raised # None THEN Idle
                      ELSE InFlight("nodes", run.documents, run.i + 1)
           /\ log' = StepEntry(out.raised, Len(run.documents), ~ok)
  /\ UNCHANGED <<cache, indexFile, graphFile, vector_store, dist, initialized,
                 database, host>>

\* Lines 92-98: the save
BuildSave ==
  /\ run.pc = "nodes"
  /\ run.i > Len(run.documents)
  /\ UNCHANGED <<cache, vector_store, graph, dist, database, host>>
  /\ initialized' = TRUE
  /\ run' = Idle
  /\ \E saveFail \in SaveFailures :
       SaveArtifacts("build_graph", run.documents, saveFail, FALSE,
                     indexFile, graphFile)

\* The texts a user asks with, each known by its row of scores
QueryScores == {2, 3}
Queries == [Texts -> QueryScores]

\* A get_context that gives up the index once it has answered
GetContextCall_Consumes(queries) ==
  \E query \in queries, embedOk \in BOOLEAN :
    LET out == GetContextResult(vector_store, graph, query, embedOk)
    IN  /\ log' = [op |-> "get_context", branch |-> "", completed |-> FALSE,
                   raised |-> out.raised,
                   embedded |-> 0, wrote |-> {}, kind |-> out.kind,
                   message |-> out.message, lines |-> out.lines,
                   query |-> query]
        /\ vector_store' = IF out.kind = "context" THEN NoneStore ELSE vector_store
        /\ UNCHANGED <<cache, indexFile, graphFile, graph, dist, run,
                       initialized, database, host>>

\* get_context(query)
GetContextCall(queries) ==
  \E query \in queries, embedOk \in BOOLEAN :
    LET out == GetContextResult(vector_store, graph, query, embedOk)
    IN  /\ log' = [op |-> "get_context", branch |-> "", completed |-> FALSE,
                   raised |-> out.raised,
                   embedded |-> 0, wrote |-> {}, kind |-> out.kind,
                   message |-> out.message, lines |-> out.lines,
                   query |-> query]
        /\ UNCHANGED <<cache, indexFile, graphFile, vector_store, graph, dist, run,
                       initialized, database, host>>

GetContext == GetContextCall(Queries)

\* GraphRAG(): a new instance (a restart of the process) over the same files
NewInstance ==
  /\ ~vector_store.isNone \/ ~graph.isNone
  /\ vector_store' = NoneStore
  /\ graph' = NoneGraph
  /\ initialized' = FALSE
  /\ log' = Entry("__init__", "", FALSE, None, 0, {})
  /\ UNCHANGED <<cache, indexFile, graphFile, dist, run, database, host>>

\* The cache writer (connect_and_cache) adds the snapshot of a table that
\* has none yet: f"{db_name}_{table_name}.json"
WriteSnapshot ==
  \E file \in {FileT, FileU, FileTX}, content \in {PayloadA} :
    /\ file \notin DOMAIN cache
    /\ cache' = [f \in DOMAIN cache \cup {file} |->
                   IF f = file THEN content ELSE cache[f]]
    /\ log' = Entry("connect_and_cache", "", FALSE, None, 0, {})
    /\ UNCHANGED <<indexFile, graphFile, vector_store, graph, dist, run, initialized,
                   database, host>>

\* --------------------------------------------------------- cache writers
\* What "SELECT * ... LIMIT 300" gives for a table: the read succeeds or
\* raises; the values are JSON-native or not (bytes of a BLOB column); the
\* columns of the frame.  meta: the metadata query of the table that raises,
\* by its place among the queries (0: none does).
SampleA == [read |-> TRUE, native |-> TRUE, columns |-> <<"id">>, meta |-> 0]
SampleB == [read |-> TRUE, native |-> TRUE, columns |-> <<"id", "name">>, meta |-> 0]
SampleBytes == [read |-> TRUE, native |-> FALSE, columns |-> <<"id">>, meta |-> 0]
SampleFails == [read |-> FALSE, native |-> TRUE, columns |-> <<>>, meta |-> 0]
Samples == {SampleA, SampleB, SampleBytes, SampleFails}

\* The keys of the metadata object, in the order of the queries that fill
\* them (lines 205-335)
MetaNames ==
  <<"columns_info", "pk_columns", "foreign_keys", "referenced_by",
    "unique_indexes", "check_constraints", "default_constraints", "procedures">>

\* A table that is sampled well and whose metadata query of place k raises
MetaSamples == {[SampleA EXCEPT !.meta = k] : k \in 0..Len(MetaNames)}

\* json.dump(..., default=str) of the writers of src/app writes every value,
\* so that a sample of bytes is to them what a sample of numbers is
SamplesOf(kind) == IF kind = "sqlite" THEN Samples ELSE Samples \ {SampleBytes}

\* The token of a name that is not ASCII
NonAscii == "n~"

\* A check that lets every name pass
IsNameSafe_Always(s) == TRUE

\* _is_name_safe(s): s.isascii()
IsNameSafe(s) == \A i \in 1..Len(s) : s[i] # NonAscii

\* f"{schema}.{table_name}.json"
SchemaFileName(schema, table_name) == NodeName(schema, table_name) \o <<".", "json">>

\* A file of open(cache_file, "w") and json.dump: created or replaced
WriteFile(dir, file, content) ==
  [f \in DOMAIN dir \cup {file} |-> IF f = file THEN content ELSE dir[f]]

\* freq_dict: one key for each column of the frame
FreqDict(sample) == [json |-> TRUE, keys |-> sample.columns]

\* A handler without its setdefault calls: meta as the queries left it
Meta_NoDefaults(failAt) ==
  LET done == IF failAt = 0 THEN Len(MetaNames) ELSE failAt - 1
  IN  [name \in {MetaNames[k] : k \in 1..done} |-> <<"row">>]

\* Lines 202-345: meta of a table that has a row for each of the queries.
\* The queries run in order and each stores its rows under its key; when
\* one raises, the handler gives the empty list to the keys that are not
\* set yet (setdefault).
Meta(failAt) ==
  LET done == IF failAt = 0 THEN Len(MetaNames) ELSE failAt - 1
      tried == [name \in {MetaNames[k] : k \in 1..done} |-> <<"row">>]
  IN  IF failAt = 0 THEN tried
      ELSE [name \in {MetaNames[k] : k \in 1..Len(MetaNames)} |->
              IF name \in DOMAIN tried THEN tried[name] ELSE <<>>]

\* freq_dict["__meta"] = meta
WithMeta(content, meta) ==
  [json |-> TRUE, keys |-> content.keys \o <<"__meta">>, meta |-> meta]

\* A writer that finds no snapshot file
SnapshotExists_Never(dir, file) == FALSE

\* os.path.exists(cache_file)
SnapshotExists(dir, file) == file \in DOMAIN dir

RECURSIVE TablesOf(_, _)
\* The tables of a sequence that are in one schema (database), in order
TablesOf(tables, schema) ==
  IF tables = <<>> THEN <<>>
  ELSE (IF Head(tables).schema = schema THEN <<Head(tables)>> ELSE <<>>)
       \o TablesOf(Tail(tables), schema)

RECURSIVE BySchema(_, _)
\* "for schema in ...: for table in tables of the schema"
BySchema(tables, schemas) ==
  IF schemas = <<>> THEN <<>>
  ELSE TablesOf(tables, Head(schemas)) \o BySchema(tables, Tail(schemas))

RECURSIVE SqliteLoop(_, _, _, _, _)
\* src/db_connector.py, the body of "for table in tables".  Neither
\* pd.read_sql_query nor json.dump is in a try: a read that fails leaves the
\* call, and so does a value json cannot encode, after open() created the
\* file and json.dump wrote the part before the value.
SqliteLoop(dir, tables, i, wrote, sampled) ==
  IF i > Len(tables)
  THEN [dir |-> dir, raised |-> None, wrote |-> wrote, sampled |-> sampled]
  ELSE LET table == tables[i]
           cache_file == FileName(table.schema, table.name)
           read == sampled \cup {i}
       IN  IF SnapshotExists(dir, cache_file)
           THEN SqliteLoop(dir, tables, i + 1, wrote, sampled)
           ELSE IF ~table.sample.read
           THEN [dir |-> dir, raised |-> "DatabaseError", wrote |-> wrote,
                 sampled |-> read]
           ELSE IF ~table.sample.native
           THEN [dir |-> WriteFile(dir, cache_file, BadJson),
                 raised |-> "TypeError", wrote |-> wrote \cup {cache_file},
                 sampled |-> read]
           ELSE SqliteLoop(WriteFile(dir, cache_file, FreqDict(table.sample)),
                           tables, i + 1, wrote \cup {cache_file}, read)

\* src/app/db_connector.py
ExcludedSchemas == {<<"sys">>, <<"INFORMATION_SCHEMA">>}

\* The filter of lines 67-71, with the allowed schemas of line 65
PyodbcEligible(table) ==
  /\ table.schema \in {<<"bdi">>, <<"tesoreria_afc">>,
                        <<"tesoreria_conciliacion_bancaria">>,
                        <<"tesoreria_fondo_unico">>}
  /\ table.schema \notin ExcludedSchemas
  /\ IsNameSafe(table.schema)
  /\ IsNameSafe(table.name)

RECURSIVE PyodbcLoop(_, _, _, _, _)
\* src/app/db_connector.py, the body of "for schema, table_name in tables"
PyodbcLoop(dir, tables, i, wrote, sampled) ==
  IF i > Len(tables)
  THEN [dir |-> dir, raised |-> None, wrote |-> wrote, sampled |-> sampled]
  ELSE LET table == tables[i]
           cache_file == SchemaFileName(table.schema, table.name)
       IN  IF ~PyodbcEligible(table) \/ SnapshotExists(dir, cache_file)
           THEN PyodbcLoop(dir, tables, i + 1, wrote, sampled)
           ELSE IF ~table.sample.read
           THEN PyodbcLoop(dir, tables, i + 1, wrote, sampled \cup {i})
           ELSE PyodbcLoop(WriteFile(dir, cache_file, FreqDict(table.sample)),
                           tables, i + 1, wrote \cup {cache_file},
                           sampled \cup {i})

\* The arguments of MSSQLConnector.connect_and_cache.  sizes: cache_dir,
\* sample_rows and max_common_values are all given; allowedGiven:
\* allowed_schemas is not None.
Options(sizes, allowedGiven, allowed, include, exclude) ==
  [sizes |-> sizes, allowedGiven |-> allowedGiven, allowed_schemas |-> allowed,
   include_tables |-> include, exclude_tables |-> exclude]

\* The arguments left out: connect_and_cache()
NoOptions == Options(FALSE, FALSE, {}, {}, {})

\* Each argument left out, or falsy, is read from settings.GRAPH_*, and
\* Settings has no attribute of these names.
ReadsSettings(options) ==
  \/ ~options.sizes
  \/ ~options.allowedGiven
  \/ options.include_tables = {}
  \/ options.exclude_tables = {}

\* A filter that lets the include-set win over the exclude-set
MssqlEligible_IncludeWins(table, options) ==
  /\ table.schema \notin ExcludedSchemas
  /\ table.schema \in options.allowed_schemas
  /\ IsNameSafe(table.schema)
  /\ IsNameSafe(table.name)
  /\ options.include_tables # {}
       => NodeName(table.schema, table.name) \in options.include_tables
  /\ options.include_tables = {}
       => NodeName(table.schema, table.name) \notin options.exclude_tables

\* The filters of lines 164-181
MssqlEligible(table, options) ==
  /\ table.schema \notin ExcludedSchemas
  /\ table.schema \in options.allowed_schemas
  /\ IsNameSafe(table.schema)
  /\ IsNameSafe(table.name)
  /\ options.include_tables # {}
       => NodeName(table.schema, table.name) \in options.include_tables
  /\ NodeName(table.schema, table.name) \notin options.exclude_tables

RECURSIVE MssqlLoop_KeepsFailed(_, _, _, _, _, _)
\* A loop that opens the snapshot file before it samples the table, and
\* leaves it empty when the sampling fails
MssqlLoop_KeepsFailed(dir, tables, options, i, wrote, sampled) ==
  IF i > Len(tables)
  THEN [dir |-> dir, raised |-> None, wrote |-> wrote, sampled |-> sampled]
  ELSE LET table == tables[i]
           cache_file == SchemaFileName(table.schema, table.name)
       IN  IF ~MssqlEligible(table, options) \/ SnapshotExists(dir, cache_file)
           THEN MssqlLoop_KeepsFailed(dir, tables, options, i + 1, wrote, sampled)
           ELSE MssqlLoop_KeepsFailed(
                  WriteFile(dir, cache_file,
                            IF table.sample.read
                            THEN WithMeta(FreqDict(table.sample),
                                          Meta(table.sample.meta))
                            ELSE BadJson),
                  tables, options, i + 1, wrote \cup {cache_file},
                  sampled \cup {i})

RECURSIVE MssqlLoop(_, _, _, _, _, _)
\* src/app/database/mssql/connector.py, the body of "for table_name in tables"
MssqlLoop(dir, tables, options, i, wrote, sampled) ==
  IF i > Len(tables)
  THEN [dir |-> dir, raised |-> None, wrote |-> wrote, sampled |-> sampled]
  ELSE LET table == tables[i]
           cache_file == SchemaFileName(table.schema, table.name)
       IN  IF ~MssqlEligible(table, options) \/ SnapshotExists(dir, cache_file)
           THEN MssqlLoop(dir, tables, options, i + 1, wrote, sampled)
           ELSE IF ~table.sample.read
           THEN MssqlLoop(dir, tables, options, i + 1, wrote, sampled \cup {i})
           ELSE MssqlLoop(WriteFile(dir, cache_file,
                                    WithMeta(FreqDict(table.sample),
                                             Meta(table.sample.meta))),
                          tables, options, i + 1, wrote \cup {cache_file},
                          sampled \cup {i})

RECURSIVE SchemaNames(_)
\* insp.get_schema_names(): each schema once
SchemaNames(tables) ==
  IF tables = <<>> THEN <<>>
  ELSE LET rest == SchemaNames(Tail(tables))
       IN  IF \E i \in 1..Len(rest) : rest[i] = Head(tables).schema
           THEN rest ELSE <<Head(tables).schema>> \o rest

\* The record of a call of a cache writer.  tables: the tables in the order
\* the writer met them; sampled: the indexes of the tables it ran its
\* sampling query on.
RefreshEntry(op, writer, options, tables, out) ==
  [op |-> op, writer |-> writer, options |-> options, tables |-> tables,
   raised |-> out.raised, wrote |-> out.wrote, sampled |-> out.sampled]

NothingDone == [raised |-> None, wrote |-> {}, sampled |-> {}]

\* DatabaseConnector.connect_and_cache() of src/db_connector.py
SqliteConnectAndCache ==
  /\ database.kind = "sqlite"
  /\ LET tables == BySchema(database.tables,
                            << <<"patients">>, <<"encounters">>, <<"labwork">> >>)
         out == SqliteLoop(cache, tables, 1, {}, {})
     IN  /\ cache' = out.dir
         /\ log' = RefreshEntry("connect_and_cache", "sqlite", NoOptions, tables, out)
  /\ UNCHANGED <<indexFile, graphFile, vector_store, graph, dist, run, initialized,
                 database, host>>

\* DatabaseConnector.connect_and_cache() of src/app/db_connector.py.  The
\* orders list(set(tables)) can give: as enumerated, and backwards.
PyodbcConnectAndCache ==
  /\ database.kind = "mssql"
  /\ \E tables \in {database.tables,
                     [i \in 1..Len(database.tables) |->
                        database.tables[Len(database.tables) + 1 - i]]} :
       LET out == PyodbcLoop(cache, tables, 1, {}, {})
       IN  /\ cache' = out.dir
           /\ log' = RefreshEntry("connect_and_cache", "pyodbc", NoOptions, tables, out)
  /\ UNCHANGED <<indexFile, graphFile, vector_store, graph, dist, run, initialized,
                 database, host>>

\* The arguments the callers pass
OptionSets ==
  {NoOptions,
   Options(TRUE, TRUE, {<<"bdi">>, <<"sys">>, <<NonAscii>>},
           {NodeName(<<"bdi">>, <<"t">>), NodeName(<<"bdi">>, <<"u">>),
            NodeName(<<"sys">>, <<"w">>), NodeName(<<"bdi">>, <<NonAscii>>),
            NodeName(<<NonAscii>>, <<"t">>)},
           {NodeName(<<"bdi">>, <<"old">>)}),
   Options(TRUE, TRUE, {<<"bdi">>}, {NodeName(<<"bdi">>, <<"t">>)},
           {NodeName(<<"bdi">>, <<"old">>)}),
   Options(TRUE, TRUE, {<<"bdi">>},
           {NodeName(<<"bdi">>, <<"t">>), NodeName(<<"bdi">>, <<"u">>)},
           {NodeName(<<"bdi">>, <<"u">>)})}

\* connect_to_mssql(odbc_conn_str): without a connection string, each of
\* DB_HOST, DB_USER, DB_PASSWORD and DB_NAME must be set (lines 49-66)
ConnectRaises(env, given) ==
  IF ~given /\ DbNames \ env # {} THEN "ValueError" ELSE None

\* MSSQLConnector.connect_and_cache(...): connects first when the connector
\* has no engine yet (lines 109-111).  op: the call the log names.
MssqlScan(op) ==
  /\ database.kind = "mssql"
  /\ host.db_connector # "none"
  /\ \E options \in OptionSets :
       LET tables == BySchema(database.tables, SchemaNames(database.tables))
           connect == IF host.db_connector = "connected" THEN None
                      ELSE ConnectRaises(host.env, FALSE)
           out == IF connect # None
                  THEN [dir |-> cache, raised |-> connect, wrote |-> {},
                        sampled |-> {}]
                  ELSE IF ReadsSettings(options)
                  THEN [dir |-> cache, raised |-> "AttributeError", wrote |-> {},
                        sampled |-> {}]
                  ELSE MssqlLoop(cache, tables, options, 1, {}, {})
       IN  /\ cache' = out.dir
           /\ host' = IF connect # None THEN host
                      ELSE [host EXCEPT !.db_connector = "connected"]
           /\ log' = RefreshEntry(op, "mssql", options, tables, out)
  /\ UNCHANGED <<indexFile, graphFile, vector_store, graph, dist, run, initialized,
                 database>>

MssqlConnectAndCache == MssqlScan("connect_and_cache")

\* A rescan that goes on to build_graph
UpdateGraphCache_Rebuilds ==
  \E listing \in NameListings(DOMAIN cache) :
    BuildGraph("update_graph_cache", listing, TRUE)

\* update_graph_cache(source): source.connect_and_cache(), and nothing else;
\* the application passes its connector (src/app/main.py line 212)
UpdateGraphCache == MssqlScan("update_graph_cache")

\* ---------------------------------------------------------- configuration
\* The record of a call that constructs or connects a component
ConfigEntry(op, raised) == Entry(op, "", FALSE, raised, 0, {})

\* MSSQLConnector(): sets its fields to None, reads nothing
NewMSSQLConnector ==
  /\ host' = [host EXCEPT !.db_connector = "constructed"]
  /\ log' = ConfigEntry("MSSQLConnector", None)
  /\ UNCHANGED <<cache, indexFile, graphFile, vector_store, graph, dist, run,
                 initialized, database>>

\* connector.connect_to_mssql(odbc_conn_str=...)
ConnectToMssql ==
  /\ host.db_connector # "none"
  /\ \E given \in BOOLEAN :
       LET raised == ConnectRaises(host.env, given)
       IN  /\ host' = IF raised # None THEN host
                      ELSE [host EXCEPT !.db_connector = "connected"]
           /\ log' = ConfigEntry("connect_to_mssql", raised)
  /\ UNCHANGED <<cache, indexFile, graphFile, vector_store, graph, dist, run,
                 initialized, database>>

\* get_database_connector(): MSSQLConnector() and connect_to_mssql with
\* os.getenv("MSSQL_ODBC_CONN_STR"); an exception leaves no connector
GetDatabaseConnector ==
  LET raised == ConnectRaises(host.env, "MSSQL_ODBC_CONN_STR" \in host.env)
  IN  /\ host' = IF raised # None THEN host
                 ELSE [host EXCEPT !.db_connector = "connected"]
      /\ log' = ConfigEntry("get_database_connector", raised)
      /\ UNCHANGED <<cache, indexFile, graphFile, vector_store, graph, dist, run,
                     initialized, database>>

\* GeminiLLM(config): keeps the key it finds, None when there is none
NewGeminiLLM ==
  /\ host' = [host EXCEPT !.llm = "constructed"]
  /\ log' = ConfigEntry("GeminiLLM", None)
  /\ UNCHANGED <<cache, indexFile, graphFile, vector_store, graph, dist, run,
                 initialized, database>>

\* llm.submit_prompt(prompt): makes the provider's client with the key;
\* okCall: the provider answers
SubmitPrompt ==
  /\ host.llm = "constructed"
  /\ \E okCall \in BOOLEAN :
       log' = ConfigEntry("submit_prompt",
                          IF KeyMissing \/ ~okCall THEN "ProviderError" ELSE None)
  /\ UNCHANGED <<cache, indexFile, graphFile, vector_store, graph, dist, run,
                 initialized, database, host>>

\* GraphRAG(): sets its fields, reads nothing
NewGraphRAG ==
  /\ vector_store' = NoneStore
  /\ graph' = NoneGraph
  /\ initialized' = FALSE
  /\ log' = ConfigEntry("GraphRAG", None)
  /\ UNCHANGED <<cache, indexFile, graphFile, dist, run, database, host>>

\* The data of a table changes, or the table gets locked or unlocked: its
\* sample is another one from now on
ChangeDatabase ==
  /\ \E i \in DOMAIN database.tables, sample \in Samples :
       /\ database.tables[i].varies
       /\ sample # database.tables[i].sample
       /\ sample \in SamplesOf(database.kind)
       /\ database' = [database EXCEPT !.tables[i].sample = sample]
  /\ log' = RefreshEntry("change", "", NoOptions, <<>>, NothingDone)
  /\ UNCHANGED <<cache, indexFile, graphFile, vector_store, graph, dist, run,
                 initialized, host>>

\* ---------------------------------------------------------- specifications
\* No database: nothing for a cache writer to sample
NoTables == [kind |-> "none", tables |-> <<>>]

StartDirs == Directories({FileW}, {BadJson, EmptyObject}, 1)
ConstantTables == {[q \in Texts |-> [t \in Texts |-> v]] : v \in ScoreVals}

Init ==
  /\ cache \in StartDirs
  /\ dist \in ConstantTables
  /\ indexFile = MissingIndex
  /\ graphFile = MissingGraph
  /\ vector_store = NoneStore
  /\ graph = NoneGraph
  /\ initialized = FALSE
  /\ run = Idle
  /\ database = NoTables
  /\ host = Configured
  /\ log = Entry("__init__", "", FALSE, None, 0, {})

\* get_context with one text a user asks with
GetContextAny == GetContextCall({[t \in Texts |-> 2]})

Next ==
  \/ WriteSnapshot
  \/ BuildOrLoadGraph
  \/ BuildGraphCall
  \/ LoadGraphCall
  \/ GetContextAny
  \/ NewInstance

Spec == Init /\ [][Next]_vars

\* SpecBuild: build_graph, without failures of the provider or of the file
\* system, over cache directories of at most MaxFiles files and every table
\* of scores.  s_w.json is the snapshot that may hold the empty object, and
\* at most one snapshot holds the second payload.
InitBuild ==
  /\ cache \in
       {dir \in Directories({FileT, FileU, FileTV, FileW, FileTX, FileNotes},
                            {EmptyObject, PayloadA, PayloadB}, MaxFiles) :
          /\ \A f \in DOMAIN dir \cap {FileTX, FileNotes} : dir[f] = EmptyObject
          /\ \A f \in DOMAIN dir \cap {FileT, FileU, FileTV} : dir[f] # EmptyObject
          /\ Cardinality({f \in DOMAIN dir : dir[f] = PayloadB}) <= 1}
  /\ dist \in DistanceTables
  /\ indexFile = MissingIndex
  /\ graphFile = MissingGraph
  /\ vector_store = NoneStore
  /\ graph = NoneGraph
  /\ initialized = FALSE
  /\ run = Idle
  /\ database = NoTables
  /\ host = Configured
  /\ log = Entry("__init__", "", FALSE, None, 0, {})

BuildGraphRun ==
  \E listing \in NameListings(DOMAIN cache) :
    BuildGraph("build_graph", listing, FALSE)

NextBuild == BuildGraphRun

SpecBuild == InitBuild /\ [][NextBuild]_vars

\* SpecContext: build_graph and get_context over cache directories with
\* more snapshots than get_context retrieves.
InitContext ==
  /\ LET TableFiles == <<FileT, FileU, FileW, FileX, FileY, FileZ, FileR>>
     IN  cache \in
           {dir \in UNION {[{TableFiles[i] : i \in 1..n} -> Payloads] :
                             n \in (MaxTables - 1)..MaxTables}
                     \cup [{FileT, FileTV, FileU, FileW} -> Payloads] :
              Cardinality({f \in DOMAIN dir : dir[f] = PayloadB}) <= 1}
  /\ dist \in {d \in DistanceTables : \A q, t \in Texts : d[q][t] \in QueryScores}
  /\ indexFile = MissingIndex
  /\ graphFile = MissingGraph
  /\ vector_store = NoneStore
  /\ graph = NoneGraph
  /\ initialized = FALSE
  /\ run = Idle
  /\ database = NoTables
  /\ host = Configured
  /\ log = Entry("__init__", "", FALSE, None, 0, {})

\* The first build of the instance
BuildGraphFirst == vector_store.isNone /\ graph.isNone /\ BuildGraphRun

NextContext ==
  \/ BuildGraphFirst
  \/ GetContext

SpecContext == InitContext /\ [][NextContext]_vars

\* SpecRefresh: the cache writers over a database whose samples change
\* between the calls.  A sqlite database serves the writer of
\* src/db_connector.py, a SQL Server database the two writers of src/app.
\* The tables whose snapshot no writer of src/app writes keep one sample,
\* and a SQL Server database has one of them at most.
TableOf(schema, name, varies) ==
  [schema |-> schema, name |-> name, varies |-> varies, sample |-> SampleA]

\* The orders a database can enumerate some of its tables in
Enumerations(tables) ==
  UNION {{e \in [1..Cardinality(T) -> T] :
            \A i, j \in 1..Cardinality(T) : i # j => e[i] # e[j]} :
         T \in SUBSET tables}

\* The samples the tables of an enumeration can have
Sampled(e, kind) ==
  {[i \in DOMAIN e |-> [e[i] EXCEPT !.sample = s[i]]] :
     s \in {f \in [DOMAIN e -> SamplesOf(kind)] :
              \A i \in DOMAIN e : ~e[i].varies => f[i] = SampleA}}

Databases ==
  LET SqliteTables ==
        {TableOf(<<"patients">>, <<"t">>, TRUE), TableOf(<<"patients">>, <<"u">>, TRUE),
         TableOf(<<"encounters">>, <<"t">>, FALSE)}
      BdiTables ==
        {TableOf(<<"bdi">>, <<"t">>, TRUE), TableOf(<<"bdi">>, <<"u">>, TRUE)}
      MssqlTables ==
        {BdiTables \cup {TableOf(<<"sys">>, <<"w">>, FALSE)},
         BdiTables \cup {TableOf(<<"bdi">>, <<NonAscii>>, FALSE)},
         BdiTables \cup {TableOf(<<NonAscii>>, <<"t">>, FALSE)}}
  IN  {[kind |-> "sqlite", tables |-> t] :
         t \in UNION {Sampled(e, "sqlite") : e \in Enumerations(SqliteTables)}}
      \cup {[kind |-> "mssql", tables |-> t] :
              t \in UNION {Sampled(e, "mssql") :
                              e \in UNION {Enumerations(T) : T \in MssqlTables}}}

InitRefresh ==
  /\ cache = <<>>
  /\ database \in Databases
  /\ host = Configured
  /\ dist \in ConstantTables
  /\ indexFile = MissingIndex
  /\ graphFile = MissingGraph
  /\ vector_store = NoneStore
  /\ graph = NoneGraph
  /\ initialized = FALSE
  /\ run = Idle
  /\ log = RefreshEntry("__init__", "", NoOptions, <<>>, NothingDone)

NextRefresh ==
  \/ SqliteConnectAndCache
  \/ PyodbcConnectAndCache
  \/ MssqlConnectAndCache
  \/ ChangeDatabase

SpecRefresh == InitRefresh /\ [][NextRefresh]_vars

\* SpecMeta: the connector's refresh over a database of two tables, each
\* with a metadata query that raises, or none, or that cannot be sampled
InitMeta ==
  /\ cache = <<>>
  /\ database \in
       {[kind |-> "mssql",
         tables |-> <<[TableOf(<<"bdi">>, <<"t">>, TRUE) EXCEPT !.sample = s],
                      [TableOf(<<"bdi">>, <<"u">>, TRUE) EXCEPT !.sample = t]>>] :
          s \in MetaSamples, t \in MetaSamples \cup {SampleFails}}
  /\ host = Configured
  /\ dist = [q \in Texts |-> [t \in Texts |-> SimilarityThreshold]]
  /\ indexFile = MissingIndex
  /\ graphFile = MissingGraph
  /\ vector_store = NoneStore
  /\ graph = NoneGraph
  /\ initialized = FALSE
  /\ run = Idle
  /\ log = RefreshEntry("__init__", "", NoOptions, <<>>, NothingDone)

NextMeta ==
  \/ MssqlConnectAndCache
  \/ ChangeDatabase

SpecMeta == InitMeta /\ [][NextMeta]_vars

\* SpecConfig: a process that starts with some of the environment
\* variables set, constructs its components and uses them
InitConfig ==
  /\ cache = <<>>
  /\ dist = [q \in Texts |-> [t \in Texts |-> SimilarityThreshold]]
  /\ indexFile = MissingIndex
  /\ graphFile = MissingGraph
  /\ vector_store = NoneStore
  /\ graph = NoneGraph
  /\ initialized = FALSE
  /\ run = Idle
  /\ database = NoTables
  /\ host \in {[env |-> e, db_connector |-> "none", llm |-> "none"] :
                e \in {DbNames \cup {"GOOGLE_AI_KEY"}, DbNames,
                       DbNames \ {"DB_HOST"},
                       {"MSSQL_ODBC_CONN_STR", "GOOGLE_AI_KEY"}, {}}}
  /\ log = ConfigEntry("start", None)

NextConfig ==
  \/ NewMSSQLConnector
  \/ ConnectToMssql
  \/ GetDatabaseConnector
  \/ NewGeminiLLM
  \/ SubmitPrompt
  \/ NewGraphRAG
  \/ WriteSnapshot
  \/ BuildOrLoadGraph

SpecConfig == InitConfig /\ [][NextConfig]_vars

\* SpecSteps: one request runs build_graph step by step while other
\* requests write snapshots and call get_context on the same instance
NextSteps ==
  \/ BuildReset
  \/ BuildScan
  \/ BuildEmbed
  \/ BuildNode
  \/ BuildSave
  \/ GetContextAny
  \/ WriteSnapshot

SpecSteps == Init /\ [][NextSteps]_vars

\* SpecAdmin: the maintenance calls of the application (delete-cache,
\* delete-db, update-db, update-cache) between cache writes and
\* build_or_load_graph calls, over a database of two tables
InitAdmin ==
  /\ cache \in StartDirs
  /\ dist \in ConstantTables
  /\ indexFile = MissingIndex
  /\ graphFile = MissingGraph
  /\ vector_store = NoneStore
  /\ graph = NoneGraph
  /\ initialized = FALSE
  /\ run = Idle
  /\ database = [kind |-> "mssql",
                 tables |-> <<TableOf(<<"bdi">>, <<"t">>, FALSE),
                              TableOf(<<"bdi">>, <<"u">>, FALSE)>>]
  /\ host = Configured
  /\ log = Entry("__init__", "", FALSE, None, 0, {})

NextAdmin ==
  \/ WriteSnapshot
  \/ BuildOrLoadGraph
  \/ DeleteGraphDb
  \/ DeleteCache
  \/ UpdateGraphDb
  \/ UpdateGraphCache

SpecAdmin == InitAdmin /\ [][NextAdmin]_vars

\* ----------------------------------------------------------------- claims
BuildOps == {"build_graph", "build_or_load_graph"}

\* C1: build_or_load_graph decides on the two persisted artifacts alone.
\* When both exist the call takes the load branch, hands no Document to the
\* embedding provider and leaves both artifacts as they are, whatever the
\* cache holds; when one is missing it takes the build branch.
C1_DecidesOnArtifacts ==
  [][log'.op = "build_or_load_graph" =>
       IF indexFile.state # "missing" /\ graphFile.state # "missing"
       THEN /\ log'.branch = "load"
            /\ log'.embedded = 0
            /\ log'.wrote = {}
            /\ indexFile' = indexFile
            /\ graphFile' = graphFile
       ELSE log'.branch = "build"]_vars

\* A load by build_or_load_graph while the cache holds a snapshot that the
\* persisted index was built without
C1_Witness ==
  /\ log.op = "build_or_load_graph"
  /\ log.branch = "load"
  /\ indexFile.state = "ok"
  /\ Len(indexFile.docs) = 1
  /\ {FileT, FileU} \subseteq DOMAIN cache

\* C2 as claimed: before a build or a load of the instance has completed,
\* get_context returns the not-initialized message and raises nothing.
C2_NotInitializedMessage ==
  (log.op = "get_context" /\ ~initialized) =>
    (log.raised = None /\ log.kind = "message" /\ log.message = NotInitialized)

\* C3 as claimed: a build that finds no Document raises nothing, writes no
\* artifact and leaves the graph and the index of the instance unset.
C3_LeavesBothUnset ==
  (log.op \in BuildOps /\ log.branch = "build" /\ log.raised = None
     /\ log.embedded = 0) =>
    (log.wrote = {} /\ graph.isNone /\ vector_store.isNone)

\* The last call was a build that ran to its end over at least one Document
BuildCompleted ==
  log.op \in BuildOps /\ log.branch = "build" /\ log.completed

Documents == vector_store.docs
DocumentNodes == {NodeOf(Documents[i]) : i \in 1..Len(Documents)}
EdgePairs(g) == {{g.edges[i].u, g.edges[i].v} : i \in 1..Len(g.edges)}

\* C4: after a completed build the nodes of the graph are the node ids of
\* the Documents, no more and no less.
C4_NodesAreDocumentIds ==
  BuildCompleted => NodeIds(graph) = DocumentNodes

\* A completed build over several Documents, one of them without an edge
C4_Witness ==
  /\ BuildCompleted
  /\ Len(Documents) >= 2
  /\ graph.edges # <<>>
  /\ \E n \in NodeIds(graph) : Neighbors(graph, n) = <<>>

\* C5 as claimed: distinct snapshot files give distinct node ids, so a
\* completed build has as many nodes as Documents.
C5_OneNodePerDocument ==
  BuildCompleted =>
    /\ \A i, j \in 1..Len(Documents) :
         i # j => NodeOf(Documents[i]) # NodeOf(Documents[j])
    /\ Cardinality(NodeIds(graph)) = Len(Documents)

\* C6 as claimed: for every two Documents, the one enumerated first being A,
\* the graph has the edge A-B exactly when B's (db, table) is in the result
\* of the query with A's content with a score of at least 0.3, and the
\* weight of the edge is that score.
C6_EdgeIffScore ==
  BuildCompleted =>
    \A i, j \in 1..Len(Documents) :
      i < j =>
        LET a == NodeOf(Documents[i])
            b == NodeOf(Documents[j])
            hit == FirstMatch(
                     SimilaritySearchWithScore(
                       Documents, dist[Documents[i].page_content], BuildTopK),
                     Documents[j])
        IN  /\ HasEdge(graph, a, b) <=> (hit.found /\ hit.score >= SimilarityThreshold)
            /\ \A k \in 1..Len(graph.edges) :
                 {graph.edges[k].u, graph.edges[k].v} = {a, b} =>
                   graph.edges[k].weight = hit.score

\* C7 as claimed: no edge of a built graph joins a node to itself.
C7_NoSelfLoop ==
  BuildCompleted =>
    \A k \in 1..Len(graph.edges) : graph.edges[k].u # graph.edges[k].v

Thresholds == {2, 3, 4, 5}

\* C8: over the same Documents and scores, the edges built with a higher
\* threshold are among the edges built with a lower one, so their number
\* does not grow; the graph of the build lies between the two.
C8_ThresholdMonotone ==
  BuildCompleted =>
    LET built == {<<t, EdgePairs(GraphOf(Documents, dist, t, -1).graph)>> :
                    t \in Thresholds}
    IN  \A low, high \in built :
          low[1] <= high[1] =>
            /\ high[2] \subseteq low[2]
            /\ Cardinality(high[2]) <= Cardinality(low[2])
            /\ high[1] >= SimilarityThreshold => high[2] \subseteq EdgePairs(graph)
            /\ low[1] <= SimilarityThreshold => EdgePairs(graph) \subseteq low[2]

\* A build that has edges a higher threshold keeps and edges it drops
C8_Witness ==
  /\ BuildCompleted
  /\ LET high == EdgePairs(GraphOf(Documents, dist, SimilarityThreshold + 1, -1).graph)
     IN  high # {} /\ high # EdgePairs(graph)

\* A graph has a cycle through several nodes when some set of nodes has two
\* neighbours inside the set for each of its nodes
HasCycle(g) ==
  \E S \in SUBSET NodeIds(g) :
    /\ S # {}
    /\ \A n \in S :
         Cardinality({m \in S : m # n /\ HasEdge(g, n, m)}) >= 2

TableLines(lines) == {k \in 1..Len(lines) : lines[k].tag = "Table"}

\* The node ids of the Documents the index returns for the last query
RetrievedNodes ==
  LET found == SimilaritySearchWithScore(Documents, log.query, ContextTopK)
  IN  {NodeOf(found[k][1]) : k \in 1..Len(found)}

\* The last call was a get_context on an instance with an index, and the
\* provider embedded the query
ContextAsked ==
  log.op = "get_context" /\ ~vector_store.isNone /\ log.raised # "EmbeddingError"

\* C9 as claimed: on a graph with a cycle, in the context that get_context
\* returns no table has two blocks.
C9_EachTableOnce ==
  (ContextAsked /\ ~graph.isNone /\ HasCycle(graph) /\ log.kind = "context") =>
    \A k, l \in TableLines(log.lines) :
      k # l => log.lines[k].value # log.lines[l].value

\* C10 as claimed: when a retrieved table has a neighbour in the graph that
\* was not retrieved, get_context returns a context with a block for the
\* table and a block for the neighbour.
C10_BlocksForNeighbours ==
  (ContextAsked /\ ~graph.isNone) =>
    \A r \in RetrievedNodes :
      \A k \in 1..Len(Neighbors(graph, r)) :
        LET n == Neighbors(graph, r)[k]
        IN  n \notin RetrievedNodes =>
              /\ log.raised = None /\ log.kind = "context"
              /\ \E x \in TableLines(log.lines) : log.lines[x].value = r
              /\ \E x \in TableLines(log.lines) : log.lines[x].value = n

RECURSIVE Reach(_, _)
\* The nodes of g that a path of edges joins to a node of S
Reach(g, S) ==
  LET next == S \cup {n \in NodeIds(g) : \E m \in S : HasEdge(g, m, n)}
  IN  IF next = S THEN S ELSE Reach(g, next)

\* C11 as claimed: every table that the graph joins, over any number of
\* edges, to a retrieved table has a block in the context that get_context
\* returns.
C11_TransitiveExpansion ==
  (ContextAsked /\ ~graph.isNone) =>
    \A n \in Reach(graph, RetrievedNodes \cap NodeIds(graph)) :
      n \notin RetrievedNodes =>
        /\ log.raised = None /\ log.kind = "context"
        /\ \E x \in TableLines(log.lines) : log.lines[x].value = n

\* The line that follows the three first lines of the block at line k
AfterBlock(lines, k) == lines[k + 3]

SnapshotFile(writer, table) ==
  IF writer = "sqlite" THEN FileName(table.schema, table.name)
  ELSE SchemaFileName(table.schema, table.name)

\* C13: a refresh of the snapshot cache never rewrites, truncates or deletes
\* a file that exists: every file of the cache is there afterwards with the
\* content it had, and the files the refresh wrote are files that did not
\* exist; the cache afterwards is the cache before plus the files written.
C13_ExistingNeverRewritten ==
  [][log'.op = "connect_and_cache" =>
       /\ \A f \in DOMAIN cache : f \in DOMAIN cache' /\ cache'[f] = cache[f]
       /\ log'.wrote \cap DOMAIN cache = {}
       /\ DOMAIN cache' = DOMAIN cache \cup log'.wrote]_vars

\* A refresh met a table that has a snapshot from an earlier refresh, whose
\* sample now has other columns than the snapshot, and wrote another file
C13_Witness ==
  /\ log.op = "connect_and_cache"
  /\ log.raised = None
  /\ log.wrote # {}
  /\ \E i \in DOMAIN log.tables :
       LET file == SnapshotFile(log.writer, log.tables[i])
       IN  /\ log.tables[i].sample = SampleB
           /\ file \in DOMAIN cache
           /\ file \notin log.wrote
           /\ cache[file] \in {FreqDict(SampleA), WithMeta(FreqDict(SampleA), Meta(0))}

\* C14: a refresh that follows a refresh of the same writer with the same
\* options, the database unchanged in between, creates and modifies no
\* snapshot file: the cache after the second call is the cache after the
\* first.
C14_SecondRefreshWritesNothing ==
  [][(/\ log.op = "connect_and_cache"
      /\ log'.op = "connect_and_cache"
      /\ log'.writer = log.writer
      /\ log'.options = log.options
      /\ database' = database)
       => cache' = cache /\ log'.wrote = {}]_vars

\* Whether a writer, with its options, takes a table for sampling when the
\* table has no snapshot file
Eligible(entry, table) ==
  CASE entry.writer = "sqlite" -> TRUE
    [] entry.writer = "pyodbc" -> PyodbcEligible(table)
    [] OTHER -> MssqlEligible(table, entry.options)

\* The call got as far as its loop over the tables
ReachedTables(entry) ==
  /\ entry.op = "connect_and_cache"
  /\ entry.writer = "mssql" => ~ReadsSettings(entry.options)

\* C15: when the sampling of a table fails during a refresh (the values of
\* every table being JSON-native), no snapshot file is written for that
\* table, the refresh raises nothing, and every eligible table that comes
\* later in the enumeration and can be sampled has its snapshot file
\* afterwards.
C15_FailedTableIsSkipped ==
  [][(/\ ReachedTables(log')
      /\ \A k \in DOMAIN log'.tables : log'.tables[k].sample.native)
       => \A i \in DOMAIN log'.tables :
            (/\ Eligible(log', log'.tables[i])
             /\ SnapshotFile(log'.writer, log'.tables[i]) \notin DOMAIN cache
             /\ ~log'.tables[i].sample.read)
              => /\ SnapshotFile(log'.writer, log'.tables[i]) \notin DOMAIN cache'
                 /\ log'.raised = None
                 /\ \A j \in DOMAIN log'.tables :
                      (/\ j > i
                       /\ Eligible(log', log'.tables[j])
                       /\ log'.tables[j].sample.read)
                        => SnapshotFile(log'.writer, log'.tables[j])
                             \in DOMAIN cache']_vars

\* C16: when a call of the embedding provider fails during a build, the
\* build stops without writing the index artifact or the graph artifact, and
\* the artifacts persisted before the build are as they were.
C16_FailedBuildWritesNothing ==
  [][(log'.op \in BuildOps /\ log'.branch = "build" /\ log'.failed)
       => /\ ~log'.completed
          /\ log'.wrote = {}
          /\ indexFile' = indexFile
          /\ graphFile' = graphFile]_vars

\* The provider failed during a build that found both artifacts persisted
C16_Witness ==
  /\ log.op \in BuildOps /\ log.branch = "build" /\ log.failed
  /\ indexFile.state = "ok" /\ graphFile.state = "ok"

\* C17: a failure of the embedding provider during a build leaves the build
\* as an exception: the call does not return normally.
C17_FailureRaises ==
  [][(log'.op \in BuildOps /\ log'.branch = "build" /\ log'.failed)
       => log'.raised # None]_vars

\* The edges of a graph with their weights
WeightedEdges(g) ==
  {<<{g.edges[i].u, g.edges[i].v}, g.edges[i].weight>> : i \in 1..Len(g.edges)}

\* C18: a build_or_load_graph that follows a build_or_load_graph which built
\* and persisted both artifacts takes the load branch and leaves the
\* instance with the same nodes, the same edges with the same weights and
\* the same Documents in the index, and the cache and the two artifacts as
\* they were.
C18_BuildOrLoadTwice ==
  [][(/\ log.op = "build_or_load_graph"
      /\ log.branch = "build"
      /\ log.completed
      /\ log.wrote = {"index", "graph"}
      /\ log'.op = "build_or_load_graph")
       => /\ log'.branch = "load"
          /\ ~graph'.isNone /\ ~vector_store'.isNone
          /\ NodeIds(graph') = NodeIds(graph)
          /\ WeightedEdges(graph') = WeightedEdges(graph)
          /\ vector_store'.docs = vector_store.docs
          /\ indexFile' = indexFile /\ graphFile' = graphFile
          /\ cache' = cache]_vars

\* build_or_load_graph loaded a graph with an edge from the artifacts
C18_Witness ==
  /\ log.op = "build_or_load_graph" /\ log.branch = "load" /\ log.completed
  /\ graph.edges # <<>>
  /\ graph = ReadGml(graphFile)
  /\ vector_store = LoadLocal(indexFile)

\* The Documents a build over a cache directory hands to the index, for
\* each order the directory can be listed in
DocumentsOf(dir) ==
  {LoadDocuments(dir, listing, 1, <<>>).documents :
     listing \in NameListings(DOMAIN dir)}

\* C19: update_graph_db leaves no artifact of an earlier build (what is
\* persisted afterwards it wrote itself) and takes the build branch; when it
\* returns without an exception, the index in memory holds the Documents
\* of the snapshot files that are in the cache, and the graph has their
\* nodes.
C19_UpdateRebuilds ==
  [][log'.op = "update_graph_db" =>
       /\ log'.branch = "build"
       /\ "index" \notin log'.wrote => indexFile' = MissingIndex
       /\ "graph" \notin log'.wrote => graphFile' = MissingGraph
       /\ log'.raised = None =>
            \E docs \in DocumentsOf(cache') :
              /\ vector_store'.docs = docs
              /\ NodeIds(graph') = {NodeOf(docs[i]) : i \in 1..Len(docs)}]_vars

DeleteOps == {"delete_cache", "delete_graph_db"}

\* A delete call raises nothing, leaves the instance's memory alone,
\* removes what it targets and returns how many files it removed: zero,
\* and nothing changed, when there was nothing to remove.
DeletesSafely ==
  /\ log'.op \in DeleteOps =>
       /\ log'.raised = None
       /\ UNCHANGED <<vector_store, graph, initialized>>
       /\ log'.deleted = 0 =>
            cache' = cache /\ indexFile' = indexFile /\ graphFile' = graphFile
  /\ log'.op = "delete_graph_db" =>
       /\ log'.deleted = Cardinality(Persisted(indexFile, graphFile))
       /\ Persisted(indexFile', graphFile') = {}
       /\ cache' = cache
  /\ log'.op = "delete_cache" =>
       /\ log'.deleted >= Cardinality(SnapshotFiles(cache))
       /\ log'.deleted <= Cardinality(SnapshotFiles(cache))
                            + Cardinality(Persisted(indexFile, graphFile))
       /\ SnapshotFiles(cache') = {}
       /\ \A f \in DOMAIN cache \ SnapshotFiles(cache) :
            f \in DOMAIN cache' /\ cache'[f] = cache[f]

ColumnsOf(g) ==
  {<<g.nodes[i].id, g.nodes[i].hasColumns, g.nodes[i].isList, g.nodes[i].columns>> :
     i \in 1..Len(g.nodes)}

\* What an index answers to every query text, for the k of get_context and
\* the k of build_graph
AnswersOf(store) ==
  [row \in ScoreRows |->
     [k \in {ContextTopK, BuildTopK} |->
        SimilaritySearchWithScore(store.docs, row, k)]]

\* C21: a load that follows a build which persisted both artifacts gives
\* the instance the graph that was saved (the same nodes, the same
\* 'columns' attribute for each node, the same edges with the same weights)
\* and an index that answers every query with the same ordered results.
C21_RoundTrip ==
  [][(/\ log.op \in BuildOps /\ log.branch = "build" /\ log.completed
      /\ log.wrote = {"index", "graph"}
      /\ log'.op \in {"load_graph", "build_or_load_graph"}
      /\ log'.branch = "load" /\ log'.completed)
       => /\ NodeIds(graph') = NodeIds(graph)
          /\ ColumnsOf(graph') = ColumnsOf(graph)
          /\ WeightedEdges(graph') = WeightedEdges(graph)
          /\ AnswersOf(vector_store') = AnswersOf(vector_store)]_vars

\* load_graph read back a graph with an edge between nodes that have a
\* list of one column
C21_Witness ==
  /\ log.op = "load_graph" /\ log.branch = "load" /\ log.completed
  /\ graph.edges # <<>>
  /\ \A i \in 1..Len(graph.nodes) :
       /\ graph.nodes[i].hasColumns /\ graph.nodes[i].isList
       /\ Len(graph.nodes[i].columns) = 1
  /\ vector_store.docs # <<>>

\* What a component needs from the environment
Needs(op) ==
  IF op = "MSSQLConnector" THEN DbNames ELSE {"GOOGLE_AI_KEY"}

\* C22: constructing a component without the credentials it needs raises:
\* the database connector without the four connection variables, the LLM
\* client and GraphRAG without the key.
C22_ConstructorRaises ==
  [][(log'.op \in {"MSSQLConnector", "GeminiLLM", "GraphRAG"}
      /\ Needs(log'.op) \ host.env # {})
       => log'.raised # None]_vars

WithColumns(g) == {k \in 1..Len(g.nodes) : g.nodes[k].hasColumns}

\* C24: nothing keeps get_context from running while a build is in flight,
\* and what the instance holds then is a half-updated pair: from the reset
\* to the assignment of the new index the graph reference is the empty
\* graph of the running build, whatever index the instance holds; from
\* then to the save the index is the new one and the graph holds 'columns'
\* for no more nodes than the outer loop has passed.
C24_InFlightPair ==
  /\ run.pc \in {"scan", "embed"} => graph = EmptyGraph
  /\ run.pc = "nodes" =>
       /\ vector_store = FromDocuments(run.documents)
       /\ Cardinality(WithColumns(graph)) <= run.i - 1

\* get_context ran between the reset and the embedding of a rebuild: the
\* instance holds the index of the build before and the freshly reset graph
C24_Witness ==
  /\ log.op = "get_context"
  /\ run.pc = "embed"
  /\ ~vector_store.isNone
  /\ vector_store.docs # run.documents
  /\ graph = EmptyGraph

\* A table that nothing but the choice of its schema can keep from being
\* sampled and written by the call of the entry: its names are safe, the
\* include-set and the exclude-set let it pass, it has no snapshot file in
\* the directory and its sample can be read
OnlySchemaDecides(entry, table, dir) ==
  LET fq_name == NodeName(table.schema, table.name)
  IN  /\ IsNameSafe(table.schema) /\ IsNameSafe(table.name)
      /\ entry.options.include_tables # {} => fq_name \in entry.options.include_tables
      /\ fq_name \notin entry.options.exclude_tables
      /\ SnapshotFile(entry.writer, table) \notin DOMAIN dir
      /\ table.sample.read

\* C25: when an explicit allow-list of schemas is supplied, a schema is
\* processed exactly when it is in the allow-list: the deny-list of system
\* schemas plays no part then.
C25_AllowListDecides ==
  [][(/\ ReachedTables(log')
      /\ log'.writer = "mssql"
      /\ log'.options.allowedGiven)
       => \A i \in DOMAIN log'.tables :
            OnlySchemaDecides(log', log'.tables[i], cache)
              => (SnapshotFile("mssql", log'.tables[i]) \in log'.wrote
                    <=> log'.tables[i].schema \in log'.options.allowed_schemas)]_vars

\* The snapshot files a call created or replaced
Written(before, after) ==
  {f \in DOMAIN after : f \notin DOMAIN before \/ after[f] # before[f]}

\* C26: a refresh writes a snapshot only for a table whose fully-qualified
\* name is in the include-set, when that set is not empty, and is not in the
\* exclude-set; a name in both sets is excluded.
C26_IncludeExclude ==
  [][(log'.op = "connect_and_cache" /\ log'.writer = "mssql")
       => /\ Written(cache, cache') = log'.wrote
          /\ \A i \in DOMAIN log'.tables :
               LET fq_name == NodeName(log'.tables[i].schema, log'.tables[i].name)
               IN  SnapshotFile("mssql", log'.tables[i]) \in log'.wrote
                     => /\ log'.options.include_tables # {}
                             => fq_name \in log'.options.include_tables
                        /\ fq_name \notin log'.options.exclude_tables]_vars

\* A refresh whose include-set and exclude-set both name bdi.u wrote the
\* snapshot of bdi.t and none for bdi.u
C26_Witness ==
  /\ log.op = "connect_and_cache"
  /\ log.writer = "mssql"
  /\ NodeName(<<"bdi">>, <<"u">>)
       \in log.options.include_tables \cap log.options.exclude_tables
  /\ \E i \in DOMAIN log.tables :
       log.tables[i].name = <<"u">> /\ log.tables[i].sample.read
  /\ log.wrote = {FileBdiT}
  /\ FileBdiU \notin DOMAIN cache

\* A name with a character outside ASCII
HasNonAscii(s) == \E k \in 1..Len(s) : s[k] = NonAscii

\* C27: a refresh skips a table when the name of its schema or its own name
\* is not pure ASCII: it runs no sampling query on it and writes no snapshot
\* file for it, raises nothing, and every other table it is to take and can
\* sample has its snapshot file afterwards.
C27_NonAsciiSkipped ==
  [][(ReachedTables(log') /\ log'.writer \in {"pyodbc", "mssql"})
       => \A i \in DOMAIN log'.tables :
            (HasNonAscii(log'.tables[i].schema) \/ HasNonAscii(log'.tables[i].name))
              => /\ i \notin log'.sampled
                 /\ SnapshotFile(log'.writer, log'.tables[i]) \notin DOMAIN cache'
                 /\ log'.raised = None
                 /\ \A j \in DOMAIN log'.tables :
                      (Eligible(log', log'.tables[j]) /\ log'.tables[j].sample.read)
                        => SnapshotFile(log'.writer, log'.tables[j])
                             \in DOMAIN cache']_vars

\* A refresh whose allow-list names a schema that is not pure ASCII met a
\* table of that schema and wrote the snapshot of a table it met later
C27_Witness ==
  /\ log.op = "connect_and_cache"
  /\ log.writer = "mssql"
  /\ \E i, j \in DOMAIN log.tables :
       /\ i < j
       /\ HasNonAscii(log.tables[i].schema)
       /\ log.tables[i].schema \in log.options.allowed_schemas
       /\ NodeName(log.tables[i].schema, log.tables[i].name)
            \in log.options.include_tables
       /\ i \notin log.sampled
       /\ j \in log.sampled
       /\ SnapshotFile("mssql", log.tables[j]) \in log.wrote

\* C28: when a metadata query fails for a table whose rows were sampled,
\* the snapshot of the table is written with its lists of frequent values,
\* and every array of its metadata object is empty, whichever query failed.
C28_FailedMetaIsEmpty ==
  [][(ReachedTables(log') /\ log'.writer = "mssql")
       => \A i \in log'.sampled :
            LET table == log'.tables[i]
                file == SnapshotFile("mssql", table)
            IN  (table.sample.read /\ table.sample.meta # 0)
                  => /\ file \in log'.wrote
                     /\ cache'[file].keys = table.sample.columns \o <<"__meta">>
                     /\ \A k \in 1..Len(MetaNames) :
                          cache'[file].meta[MetaNames[k]] = <<>>]_vars

\* C29: a failed rebuild does not break retrieval.  When an instance that
\* holds an index and a graph runs a build that fails, for want of a
\* Document or because the embedding provider fails, every query that
\* get_context answered without raising before the build it answers without
\* raising after it.
C29_FailedRebuildKeepsRetrieval ==
  [][(/\ log'.op \in BuildOps /\ log'.branch = "build" /\ ~log'.completed
      /\ log'.failed \/ (log'.embedded = 0 /\ log'.raised = None)
      /\ ~vector_store.isNone /\ ~graph.isNone)
       => \A query \in Queries :
            GetContextResult(vector_store, graph, query, TRUE).raised = None
              => GetContextResult(vector_store', graph', query, TRUE).raised = None]_vars

\* C30: whenever the index of the instance is set, its graph is set too and
\* has a node for every Document of the index.
C30_IndexHasItsGraph ==
  ~vector_store.isNone
    => /\ ~graph.isNone
       /\ \A i \in 1..Len(vector_store.docs) :
            HasNode(graph, NodeOf(vector_store.docs[i]))

\* C31: the two artifacts are written as a pair.  A build, whether it
\* succeeds or fails at any step, the save included, either writes the index
\* artifact and the graph artifact, both sound, or writes neither and leaves
\* the artifacts as they were.
C31_ArtifactsAsPair ==
  [][(log'.op \in BuildOps /\ log'.branch = "build")
       => \/ /\ log'.wrote = {}
             /\ indexFile' = indexFile
             /\ graphFile' = graphFile
          \/ /\ log'.wrote = {"index", "graph"}
             /\ indexFile'.state = "ok"
             /\ graphFile'.state = "ok"]_vars

\* C32: after a completed build every node of the graph carries the
\* 'columns' attribute, a list equal to the column list of its Document (of
\* the last enumerated one when several Documents have the node's id), also
\* when add_edge created the node before the outer loop reached it.
C32_NodesCarryColumns ==
  BuildCompleted =>
    \A k \in 1..Len(graph.nodes) :
      LET node == graph.nodes[k]
          own == {i \in 1..Len(Documents) : NodeOf(Documents[i]) = node.id}
      IN  /\ node.hasColumns /\ node.isList
          /\ own # {}
          /\ node.columns =
               Documents[CHOOSE i \in own : \A j \in own : j <= i].columns

\* A completed build with an edge whose second end point, created by
\* add_edge, has the two columns of its Document
C32_Witness ==
  /\ BuildCompleted
  /\ \E e \in 1..Len(graph.edges) :
       /\ graph.edges[e].u # graph.edges[e].v
       /\ NodeAttrs(graph, graph.edges[e].v).columns = <<"id", "name">>

\* C33: get_context is read-only.  A call leaves the graph and the index of
\* the instance, the snapshot files and the two persisted artifacts as they
\* were, and a call that follows a call with the same query, the provider
\* answering both, ends as that one did: the same string, or the same error.
C33_GetContextReadOnly ==
  [][log'.op = "get_context"
       => /\ UNCHANGED <<cache, indexFile, graphFile, vector_store, graph>>
          /\ (/\ log.op = "get_context"
              /\ log.query = log'.query
              /\ log.raised # "EmbeddingError"
              /\ log'.raised # "EmbeddingError")
               => /\ log'.raised = log.raised
                  /\ log'.kind = log.kind
                  /\ log'.message = log.message
                  /\ log'.lines = log.lines]_vars

\* get_context has returned a context over a graph with an edge
C33_Witness ==
  /\ log.op = "get_context"
  /\ log.kind = "context"
  /\ Len(log.lines) > 1
  /\ ~graph.isNone /\ graph.edges # <<>>

\* C34: every snapshot file that the MSSQL refresh writes holds, under the
\* key __meta, an object with the eight metadata keys, whether no metadata
\* query failed, the first did, or a later one did.
C34_MetaHasEightKeys ==
  [][(log'.op = "connect_and_cache" /\ log'.writer = "mssql")
       => \A file \in log'.wrote :
            /\ cache'[file].keys[Len(cache'[file].keys)] = "__meta"
            /\ DOMAIN cache'[file].meta
                 = {MetaNames[k] : k \in 1..Len(MetaNames)}]_vars

\* A refresh wrote the files of a table whose first metadata query failed
\* and of a table whose metadata failed after two queries had succeeded
C34_Witness ==
  /\ log.op = "connect_and_cache"
  /\ log.writer = "mssql"
  /\ \E i, j \in DOMAIN log.tables :
       /\ log.tables[i].sample.meta = 1
       /\ log.tables[j].sample.meta = 3
       /\ {SnapshotFile("mssql", log.tables[i]),
           SnapshotFile("mssql", log.tables[j])} \subseteq log.wrote

\* C35: in the MSSQL refresh a table is sampled exactly when the options
\* take it and it has no snapshot file.  A table whose sampling fails gets
\* no file, so each later refresh that takes the table samples it again;
\* when its sampling succeeds its file is written in that refresh; and a
\* file, once in the cache, stays, so the table is not sampled any more.
C35_FailedTableIsRetried ==
  [][/\ DOMAIN cache \subseteq DOMAIN cache'
     /\ (ReachedTables(log') /\ log'.writer = "mssql" /\ log'.raised = None)
          => \A i \in DOMAIN log'.tables :
               LET table == log'.tables[i]
                   file == SnapshotFile("mssql", table)
               IN  /\ i \in log'.sampled
                        <=> (MssqlEligible(table, log'.options)
                             /\ file \notin DOMAIN cache)
                   /\ (i \in log'.sampled /\ ~table.sample.read)
                        => file \notin DOMAIN cache'
                   /\ (i \in log'.sampled /\ table.sample.read)
                        => file \in log'.wrote /\ file \in DOMAIN cache']_vars

\* A refresh wrote the file of bdi.t and found the file of bdi.u, which
\* only an earlier MSSQL refresh that took both tables can have written: the
\* sampling of bdi.t failed then and succeeded now
C35_Witness ==
  /\ log.op = "connect_and_cache"
  /\ log.writer = "mssql"
  /\ \E i, j \in DOMAIN log.tables :
       /\ log.tables[i].schema = <<"bdi">> /\ log.tables[i].name = <<"t">>
       /\ log.tables[j].schema = <<"bdi">> /\ log.tables[j].name = <<"u">>
       /\ i \in log.sampled
       /\ j \notin log.sampled
       /\ SnapshotFile("mssql", log.tables[i]) \in log.wrote
       /\ SnapshotFile("mssql", log.tables[j]) \in DOMAIN cache \ log.wrote
       /\ MssqlEligible(log.tables[j], log.options)
       /\ cache[SnapshotFile("mssql", log.tables[j])]
            = WithMeta(FreqDict(SampleA), Meta(0))

\* C36 as claimed: the built graph does not depend on the order in which
\* the snapshot files are enumerated: two completed builds over the same
\* files and the same scores give the same edges with the same weights.
C36_OrderIndependent ==
  [][(BuildCompleted /\ BuildCompleted')
       => WeightedEdges(graph') = WeightedEdges(graph)]_vars

\* C37 as claimed: the name of every snapshot file that a cache writer
\* writes for a table is parsed by build, without an error, back into the
\* schema (or database) and the name of that table.
C37_FileNameRoundTrip ==
  [][log'.op = "connect_and_cache"
       => \A i \in DOMAIN log'.tables :
            LET table == log'.tables[i]
                file == SnapshotFile(log'.writer, table)
                name == ParseFileName(file)
            IN  file \in log'.wrote
                  => /\ name.raised = None
                     /\ name.db = table.schema
                     /\ name.table = table.name]_vars

====
